---- MODULE Spec2Model ----
(***************************************************************************)
(* A model of finder.py (MestreLion/minecraft-finder): the coordinate      *)
(* arithmetic of class Pos and of chunkcoords(), and the driver main()     *)
(* with its entity search and its block search.                            *)
(*                                                                         *)
(* Numbers that may carry a fractional part (entity positions are NBT      *)
(* doubles) are kept in fixed point: the integer n stands for the value    *)
(* n / Scale.  Python integers are unbounded, so no width is modelled.     *)
(* Strings are sequences of one-character strings, so that str.lower()     *)
(* is a computation and not the identity.                                  *)
(***************************************************************************)
EXTENDS Integers, Sequences, FiniteSets, TLC

VARIABLES
    pos,          \* the Pos object under test (SpecPos)
    ret,          \* the result of the last call made on pos (SpecPos)
    pc,           \* main(): where control is
    world,        \* main(): which level the name world is bound to
    liberr,       \* the exception the library raised to load_world / get_player
    args_block,   \* main(): args.block (line 337)
    chunks,       \* the chunks world.getChunks() yields, in the order it yields them
    fetched,      \* chunks taken so far from the current getChunks() iterator
    processed,    \* chunks whose loop body has run to its end in the current loop
    work,         \* the chunks the current loop walks, in that order
    ei,           \* entities / block positions of the current chunk already handled
    entityid,     \* main(): entityid
    entitycount,  \* main(): entitycount
    blockcount,   \* main(): blockcount
    raised,       \* the exception that ended main(), "none" while there is none
    out           \* the records handed to the logger, oldest first

posvars  == <<pos, ret>>
mainvars == <<pc, world, liberr, args_block, chunks, fetched, processed, work, ei,
              entityid, entitycount, blockcount, raised, out>>
vars     == <<pos, ret, pc, world, liberr, args_block, chunks, fetched, processed, work, ei,
              entityid, entitycount, blockcount, raised, out>>

None == "None"
\* args.block is None, or holds a block id: <<>> or <<id>>
NoBlock == <<>>

(***************************************************************************)
(* Bounds of the model.                                                    *)
(***************************************************************************)
\* fixed-point denominator: the integer n stands for n / Scale
Scale == 2
\* positions -MaxFine .. MaxFine (in 1/Scale units) are all tried
MaxFine == 34
\* and the first and the last position of every chunk -MaxChunkIdx .. MaxChunkIdx
MaxChunkIdx == 33
\* a world yields at most MaxChunks chunks
MaxChunks == 2
\* a chunk holds at most MaxEntities entities
MaxEntities == 1

(***************************************************************************)
(* Python's integer operators.                                             *)
(***************************************************************************)
\* int(v) of a float v: the fractional part is dropped, towards zero
int(v) == IF v >= 0 THEN v \div Scale ELSE -((-v) \div Scale)

\* a >> k on an unbounded two's-complement integer: k halvings, each one
\* dropping the lowest bit (\div rounds down, as the shift does)
RECURSIVE ShiftRight(_, _)
ShiftRight(a, k) == IF k = 0 THEN a ELSE ShiftRight(a \div 2, k - 1)

\* a & m for a mask m >= 0, bit by bit; a negative a has infinitely many
\* leading 1 bits, which a \div 2 keeps
RECURSIVE BitAnd(_, _)
BitAnd(a, m) ==
    IF m = 0 THEN 0
    ELSE (a % 2) * (m % 2) + 2 * BitAnd(a \div 2, m \div 2)

\* the quotient rounded towards zero (what a truncating division would give)
TruncDiv(a, b) == IF a >= 0 THEN a \div b ELSE -((-a) \div b)

(***************************************************************************)
(* class Pos (lines 227-275).  self is the record [x, y, z, cx, cz].       *)
(***************************************************************************)
\* chunkCoords with a division that rounds towards zero in place of the shift
chunkCoordsTrunc(self) == <<TruncDiv(int(self.x), 16), TruncDiv(int(self.z), 16)>>
\* Pos.chunkCoords
chunkCoords(self) == <<ShiftRight(int(self.x), 4), ShiftRight(int(self.z), 4)>>

\* chunkPos with a remainder that takes the sign of the dividend in place of the mask
chunkPosSigned(self) ==
    <<int(self.x) - 16 * TruncDiv(int(self.x), 16),
      int(self.z) - 16 * TruncDiv(int(self.z), 16),
      int(self.y)>>
\* Pos.chunkPos
chunkPos(self) == <<BitAnd(int(self.x), 15), BitAnd(int(self.z), 15), int(self.y)>>

\* Pos.regionCoords
regionCoords(self) ==
    LET c == chunkCoords(self) IN <<ShiftRight(c[1], 5), ShiftRight(c[2], 5)>>

\* regionPos with the mask 0xF in place of 0x1F
regionPosNarrow(self) ==
    LET c == chunkCoords(self) IN <<BitAnd(c[1], 15), BitAnd(c[2], 15)>>
\* Pos.regionPos
regionPos(self) ==
    LET c == chunkCoords(self) IN <<BitAnd(c[1], 31), BitAnd(c[2], 31)>>

\* Pos.__init__
PosNew(value) ==
    LET s == [x |-> value[1], y |-> value[2], z |-> value[3]]
        c == chunkCoords(s)
    IN  [x |-> s.x, y |-> s.y, z |-> s.z, cx |-> c[1], cz |-> c[2]]

\* Pos.__str__: the four groups of numbers it formats ("%d" of a float
\* drops the fractional part as int() does)
PosStr(self) ==
    [strpos |-> <<int(self.x), int(self.y), int(self.z)>>,
     strreg |-> regionCoords(self),
     stroff |-> regionPos(self),
     strcnk |-> chunkCoords(self)]

\* chunkcoords(world, chunk): the region comes from the library's
\* getRegionForChunk(cx, cz), which shifts each coordinate right by 5
chunkcoords(chunk) ==
    LET cx == chunk.chunkPosition[1]
        cz == chunk.chunkPosition[2]
    IN  <<<<ShiftRight(cx, 5), ShiftRight(cz, 5)>>,
          <<BitAnd(cx, 31), BitAnd(cz, 31)>>,
          <<cx, cz>>>>

\* logcoords(world, chunk, coords): the numbers it formats
logcoords(chunk, coords) ==
    LET c == chunkcoords(chunk)
    IN  [region |-> c[1], off |-> c[2], chunk |-> c[3],
         position |-> <<coords[1], coords[3], coords[2]>>]

(***************************************************************************)
(* SpecPos: the methods of Pos and chunkcoords() applied to positions      *)
(* drawn from a bounded set.                                               *)
(***************************************************************************)
FineCoords == (-MaxFine) .. MaxFine
ChunkEdgeCoords ==
    { 16 * Scale * c + o : c \in (-MaxChunkIdx) .. MaxChunkIdx,
                           o \in {0, 16 * Scale - 1} }
Coords  == FineCoords \cup ChunkEdgeCoords
YCoords == { -(Scale + 1), 64 * Scale }

NoRet == [op |-> "none", val |-> <<>>]

\* main() at rest: the values its variables have before it runs
MainIdle ==
    /\ pc = "start"
    /\ world = None
    /\ liberr = "none"
    /\ args_block = NoBlock
    /\ chunks = <<>>
    /\ fetched = 0
    /\ processed = 0
    /\ work = <<>>
    /\ ei = 0
    /\ entityid = <<>>
    /\ entitycount = 0
    /\ blockcount = 0
    /\ raised = "none"
    /\ out = <<>>

InitPos ==
    /\ \E x \in Coords, y \in YCoords, z \in Coords : pos = PosNew(<<x, y, z>>)
    /\ ret = NoRet
    /\ MainIdle

CallChunkCoords ==
    /\ ret' = [op |-> "chunkCoords", val |-> chunkCoords(pos)]
    /\ UNCHANGED <<pos, mainvars>>

CallChunkPos ==
    /\ ret' = [op |-> "chunkPos", val |-> chunkPos(pos)]
    /\ UNCHANGED <<pos, mainvars>>

CallRegionCoords ==
    /\ ret' = [op |-> "regionCoords", val |-> regionCoords(pos)]
    /\ UNCHANGED <<pos, mainvars>>

CallRegionPos ==
    /\ ret' = [op |-> "regionPos", val |-> regionPos(pos)]
    /\ UNCHANGED <<pos, mainvars>>

CallStr ==
    /\ ret' = [op |-> "__str__", val |-> PosStr(pos)]
    /\ UNCHANGED <<pos, mainvars>>

\* chunkcoords() of the chunk the position lies in
CallChunkcoordsFn ==
    /\ ret' = [op |-> "chunkcoords",
               val |-> chunkcoords([chunkPosition |-> <<pos.cx, pos.cz>>])]
    /\ UNCHANGED <<pos, mainvars>>

NextPos ==
    \/ CallChunkCoords
    \/ CallChunkPos
    \/ CallRegionCoords
    \/ CallRegionPos
    \/ CallStr
    \/ CallChunkcoordsFn

SpecPos == InitPos /\ [][NextPos]_vars

\* the position holds whole numbers in x and z
IntegerXZ == pos.x % Scale = 0 /\ pos.z % Scale = 0
IntegerXYZ == IntegerXZ /\ pos.y % Scale = 0
\* c is the index of the cell of width w (in whole units) that holds v
CellOf(v, w, c) == w * Scale * c <= v /\ v < w * Scale * (c + 1)

(* C1: for whole x and z, chunkCoords() is (floor(x/16), floor(z/16)): the
   chunk's 16 columns [16*cx, 16*cx+15] hold x, likewise z, for negative
   coordinates too; the position (-1, -1) is in chunk (-1, -1). *)
C1_ChunkCoordsFloor ==
    (ret.op = "chunkCoords" /\ IntegerXZ) =>
        /\ CellOf(pos.x, 16, ret.val[1])
        /\ CellOf(pos.z, 16, ret.val[2])
        /\ (pos.x = -Scale /\ pos.z = -Scale) => ret.val = <<-1, -1>>

C1_Witness ==
    /\ ret.op = "chunkCoords"
    /\ pos.x = -Scale /\ pos.z = -Scale
    /\ ret.val = <<-1, -1>>

(* C2: regionCoords() and regionPos() (and the offset of chunkcoords())
   split every chunk coordinate uniquely: the offsets are in 0..31, and
   cx = 32*rx + cxr, cz = 32*rz + czr; chunk (17,-3) is region (0,-1)
   offset (17,29), chunk (-1,-1) is region (-1,-1). *)
Splits32(c, r, o) == o \in 0 .. 31 /\ c = 32 * r + o

C2_RegionDecomposition ==
    /\ ret.op = "__str__" =>
        /\ Splits32(ret.val.strcnk[1], ret.val.strreg[1], ret.val.stroff[1])
        /\ Splits32(ret.val.strcnk[2], ret.val.strreg[2], ret.val.stroff[2])
        /\ ret.val.strcnk = <<17, -3>> =>
              ret.val.strreg = <<0, -1>> /\ ret.val.stroff = <<17, 29>>
        /\ ret.val.strcnk = <<-1, -1>> => ret.val.strreg = <<-1, -1>>
    /\ ret.op = "regionCoords" =>
        /\ 32 * ret.val[1] <= pos.cx /\ pos.cx < 32 * (ret.val[1] + 1)
        /\ 32 * ret.val[2] <= pos.cz /\ pos.cz < 32 * (ret.val[2] + 1)
    /\ ret.op = "regionPos" =>
        /\ ret.val[1] \in 0 .. 31 /\ (pos.cx - ret.val[1]) % 32 = 0
        /\ ret.val[2] \in 0 .. 31 /\ (pos.cz - ret.val[2]) % 32 = 0
    /\ ret.op = "chunkcoords" =>
        /\ Splits32(ret.val[3][1], ret.val[1][1], ret.val[2][1])
        /\ Splits32(ret.val[3][2], ret.val[1][2], ret.val[2][2])

C2_Witness ==
    /\ ret.op = "__str__"
    /\ ret.val.strcnk = <<17, -3>>
    /\ ret.val.strreg = <<0, -1>>
    /\ ret.val.stroff = <<17, 29>>

(* C3: for a position of whole numbers, chunkPos() is (x mod 16, z mod 16,
   y): the first two are in 0..15 for negative x and z too, y is unchanged,
   and with the chunk coordinates x = 16*cx + xc and z = 16*cz + zc. *)
C3_ChunkPosReconstructs ==
    (ret.op = "chunkPos" /\ IntegerXYZ) =>
        /\ ret.val[1] \in 0 .. 15
        /\ ret.val[2] \in 0 .. 15
        /\ Scale * ret.val[3] = pos.y
        /\ Scale * (16 * pos.cx + ret.val[1]) = pos.x
        /\ Scale * (16 * pos.cz + ret.val[2]) = pos.z

C3_Witness ==
    /\ ret.op = "chunkPos"
    /\ IntegerXYZ
    /\ pos.x < 0 /\ pos.z < 0
    /\ ret.val[1] > 0 /\ ret.val[2] > 0

(* C10: for a position with a fractional part, chunkCoords() is still the
   chunk that holds it and chunkPos() is floor(x) mod 16, floor(z) mod 16,
   for negative coordinates too: x = -0.5 is in chunk -1 at offset 15. *)
C10_FractionalFloor ==
    /\ ret.op = "chunkCoords" =>
        /\ CellOf(pos.x, 16, ret.val[1])
        /\ CellOf(pos.z, 16, ret.val[2])
    /\ ret.op = "chunkPos" =>
        /\ CellOf(pos.x - 16 * Scale * pos.cx, 1, ret.val[1])
        /\ CellOf(pos.z - 16 * Scale * pos.cz, 1, ret.val[2])

(***************************************************************************)
(* Strings, and the NBT data main() reads.                                 *)
(***************************************************************************)
UpperCase == <<"A","B","C","D","E","F","G","H","I","J","K","L","M",
               "N","O","P","Q","R","S","T","U","V","W","X","Y","Z">>
LowerCase == <<"a","b","c","d","e","f","g","h","i","j","k","l","m",
               "n","o","p","q","r","s","t","u","v","w","x","y","z">>

lowerChar(c) ==
    IF \E i \in 1 .. 26 : UpperCase[i] = c
    THEN LowerCase[CHOOSE i \in 1 .. 26 : UpperCase[i] = c]
    ELSE c
\* str.lower()
lower(s) == [i \in 1 .. Len(s) |-> lowerChar(s[i])]

Str_Villager  == <<"V","i","l","l","a","g","e","r">>
Str_villager  == <<"v","i","l","l","a","g","e","r">>
Str_Zombie    == <<"Z","o","m","b","i","e">>
Str_minecraft == <<"m","i","n","e","c","r","a","f","t",":">>

\* args.entity, as line 336 sets it
args_entity == Str_Villager
\* the block id left in the comment of line 337
BlockId == 97

\* Entities as the library hands them over: NBT compounds, here records
\* that hold exactly the keys the compound holds.  None of them carries
\* an Offers compound, so line 321 is false for all of them.
E_Villager      == [id |-> Str_Villager, Profession |-> 0,
                    Pos |-> <<-1, 64 * Scale, 8 * Scale + 1>>]
E_Zombie        == [id |-> Str_Zombie, Pos |-> <<40 * Scale, 70 * Scale, -3 * Scale>>]
E_LowerVillager == [id |-> Str_villager, Profession |-> 1,
                    Pos |-> <<0, 64 * Scale, 0>>]
E_Namespaced    == [id |-> Str_minecraft \o Str_villager, Profession |-> 2,
                    Pos |-> <<0, 64 * Scale, 0>>]
E_BadProfession == [id |-> Str_Villager, Profession |-> 5,
                    Pos |-> <<0, 64 * Scale, 0>>]
E_NoPos         == [id |-> Str_Villager, Profession |-> 3]

\* the entities of the entity search (E_Namespaced is the one that does
\* not match)
EntityKinds == {E_Villager, E_LowerVillager, E_Namespaced,
                E_BadProfession, E_NoPos}

\* the cells of chunk.Blocks the model keeps, as (xc, zc, y)
BlockCells == {<<0, 0, 0>>, <<15, 3, 64>>}
PlainBlocks == [c \in BlockCells |-> 1]

(***************************************************************************)
(* load_world, get_player, and what main() does with an exception.         *)
(***************************************************************************)
Returned(v) == [ok |-> TRUE, val |-> v, exc |-> "none"]
Raises(e)   == [ok |-> FALSE, val |-> None, exc |-> e]

\* load_world without the except clause for LoadingError
load_worldLeaky(lib) ==
    CASE lib = "IOError" -> Raises("PyMCLevelError")
      [] lib = "ok"      -> Returned("level")
      [] OTHER           -> Raises(lib)
\* load_world(name), name a path or a save name (not an MCLevel): lib is
\* what pymclevel.fromFile / loadWorld does
load_world(lib) ==
    CASE lib = "IOError"      -> Raises("PyMCLevelError")
      [] lib = "LoadingError" -> Raises("PyMCLevelError")
      [] lib = "ok"           -> Returned("level")
      [] OTHER                -> Raises(lib)

\* get_player(world, playername): lib is what world.getPlayerTag does,
\* dim the Dimension of the player tag it returns
get_player(lib, dim) ==
    CASE lib = "PlayerNotFound" -> Raises("PyMCLevelError")
      [] lib = "ok"             -> Returned([Dimension |-> dim])
      [] OTHER                  -> Raises(lib)

\* the except clause of main() (line 376); KeyError and IndexError are
\* the LookupErrors
CaughtByMain(exc) == exc \in {"PyMCLevelError", "KeyError", "IndexError", "IOError"}

\* main() ends on an exception: logged and returned from when the except
\* clause catches it (lines 376-378), else it leaves main() (lines 386-388)
Raise(exc) ==
    /\ raised' = exc
    /\ pc' = IF CaughtByMain(exc) THEN "returned" ELSE "fault"
    /\ out' = Append(out, [level |-> IF CaughtByMain(exc) THEN "error" ELSE "critical",
                           kind  |-> "exception", exc |-> exc])

(***************************************************************************)
(* Entity, Villager (lines 278-330).                                       *)
(***************************************************************************)
professions == [p \in 0 .. 4 |->
                  CASE p = 0 -> "Farmer"
                    [] p = 1 -> "Librarian"
                    [] p = 2 -> "Priest"
                    [] p = 3 -> "Blacksmith"
                    [] p = 4 -> "Butcher"]

\* Entity.__init__
EntityNew(nbt) ==
    IF "id" \notin DOMAIN nbt \/ "Pos" \notin DOMAIN nbt THEN Raises("KeyError")
    ELSE IF Len(nbt.Pos) # 3 THEN Raises("ValueError")
    ELSE Returned([id |-> nbt.id, pos |-> PosNew(nbt.Pos)])

\* Villager.__init__
VillagerNew(nbt) ==
    LET e == EntityNew(nbt) IN
    IF ~e.ok THEN e
    ELSE IF "Profession" \notin DOMAIN nbt THEN Raises("KeyError")
    ELSE IF nbt.Profession \notin DOMAIN professions THEN Raises("KeyError")
    ELSE Returned([id |-> e.val.id, pos |-> e.val.pos,
                   profession |-> professions[nbt.Profession],
                   offers |-> <<>>])

\* Villager.__str__
VillagerStr(v) == [at |-> PosStr(v.pos), profession |-> v.profession, offers |-> v.offers]

\* the test of line 354 without the two lower() calls
entityMatchesExact(entity) == entity.id = args_entity
\* the test of line 354
entityMatches(entity) == lower(entity.id) = lower(args_entity)

(***************************************************************************)
(* sorted() and numpy.where(), as the block search uses them.              *)
(***************************************************************************)
\* tuples compare item by item
PairLess(a, b) == a[1] < b[1] \/ (a[1] = b[1] /\ a[2] < b[2])
TripleLess(a, b) == a[1] < b[1] \/ (a[1] = b[1] /\ PairLess(<<a[2], a[3]>>, <<b[2], b[3]>>))

\* c put into the sorted sequence s, after the items that are not greater
RECURSIVE InsertChunk(_, _)
InsertChunk(s, c) ==
    IF s = <<>> THEN <<c>>
    ELSE IF PairLess(c.chunkPosition, Head(s).chunkPosition) THEN <<c>> \o s
    ELSE <<Head(s)>> \o InsertChunk(Tail(s), c)

RECURSIVE SortedChunks(_)
\* sorted(seq, key=lambda chunk: chunk.chunkPosition)
SortedChunks(seq) ==
    IF seq = <<>> THEN <<>>
    ELSE InsertChunk(SortedChunks(SubSeq(seq, 1, Len(seq) - 1)), seq[Len(seq)])

RECURSIVE CellsInOrder(_)
\* the cells of a set in index order (x, then z, then y)
CellsInOrder(S) ==
    IF S = {} THEN <<>>
    ELSE LET m == CHOOSE c \in S : \A d \in S \ {c} : TripleLess(c, d)
         IN  <<m>> \o CellsInOrder(S \ {m})

\* only the first cell that holds b
WhereFirst(Blocks, b) ==
    LET all == CellsInOrder({c \in DOMAIN Blocks : Blocks[c] = b})
    IN  IF all = <<>> THEN <<>> ELSE <<Head(all)>>
\* zip(*numpy.where(Blocks == b)): every cell that holds b, in index order
Where(Blocks, b) == CellsInOrder({c \in DOMAIN Blocks : Blocks[c] = b})

(***************************************************************************)
(* main() (lines 333-378).                                                 *)
(***************************************************************************)
LibLoadOutcomes   == {"ok", "IOError", "LoadingError"}
LibPlayerOutcomes == {"ok", "PlayerNotFound"}
Dimensions        == {0, -1}

\* the chunk the running loop is at
CurChunk == work[processed + 1]

\* line 343
MainLoadWorld ==
    /\ pc = "start"
    /\ \E lib \in LibLoadOutcomes :
         LET r == load_world(lib) IN
         /\ liberr' = IF lib = "ok" THEN liberr ELSE lib
         /\ IF r.ok
            THEN /\ world' = r.val
                 /\ pc' = "loaded"
                 /\ UNCHANGED <<raised, out>>
            ELSE /\ Raise(r.exc)
                 /\ UNCHANGED world
    /\ UNCHANGED <<pos, ret, args_block, chunks, fetched, processed, work, ei,
                   entityid, entitycount, blockcount>>

\* lines 344-352: the player, its dimension, and the start of the entity
\* search (args.entity is never None), up to the call of world.getChunks()
MainGetPlayer ==
    /\ pc = "loaded"
    /\ \E lib \in LibPlayerOutcomes, dim \in Dimensions :
         LET r == get_player(lib, dim) IN
         /\ liberr' = IF lib = "ok" THEN liberr ELSE lib
         /\ IF r.ok
            THEN /\ world' = IF r.val.Dimension = 0 THEN world ELSE "dimension"
                 /\ entityid' = args_entity
                 /\ entitycount' = 0
                 /\ pc' = "scan"
                 /\ UNCHANGED <<raised, out>>
            ELSE /\ Raise(r.exc)
                 /\ UNCHANGED <<world, entityid, entitycount>>
    /\ UNCHANGED <<pos, ret, args_block, chunks, fetched, processed, work, ei,
                   blockcount>>

\* line 352 with the iterator exhausted at once (as list() would)
FetchAllChunks ==
    /\ pc = "scan"
    /\ fetched < Len(chunks)
    /\ fetched' = Len(chunks)
    /\ work' = chunks
    /\ ei' = 0
    /\ pc' = "chunk"
    /\ UNCHANGED <<pos, ret, world, liberr, args_block, chunks, processed,
                   entityid, entitycount, blockcount, raised, out>>

\* line 352: the for statement takes the next chunk from the iterator
FetchChunk ==
    /\ pc = "scan"
    /\ fetched < Len(chunks)
    /\ fetched' = fetched + 1
    /\ work' = Append(work, chunks[fetched + 1])
    /\ ei' = 0
    /\ pc' = "chunk"
    /\ UNCHANGED <<pos, ret, world, liberr, args_block, chunks, processed,
                   entityid, entitycount, blockcount, raised, out>>

\* an entity that does not match, with the count raised outside the if
EntityCountAll ==
    /\ pc = "chunk"
    /\ ei < Len(CurChunk.Entities)
    /\ ~entityMatches(CurChunk.Entities[ei + 1])
    /\ ei' = ei + 1
    /\ entitycount' = entitycount + 1
    /\ UNCHANGED <<pos, ret, pc, world, liberr, args_block, chunks, fetched,
                   processed, work, entityid, blockcount, raised, out>>

\* lines 353-354: an entity that does not match
EntitySkip ==
    /\ pc = "chunk"
    /\ ei < Len(CurChunk.Entities)
    /\ ~entityMatches(CurChunk.Entities[ei + 1])
    /\ ei' = ei + 1
    /\ UNCHANGED <<pos, ret, pc, world, liberr, args_block, chunks, fetched,
                   processed, work, entityid, entitycount, blockcount, raised, out>>

\* lines 353-361: an entity that matches, and no exception
EntityMatch ==
    /\ pc = "chunk"
    /\ ei < Len(CurChunk.Entities)
    /\ LET entity == CurChunk.Entities[ei + 1]
           dbg == [level |-> "debug", kind |-> "entity", nbt |-> entity]
       IN  /\ entityMatches(entity)
           /\ entity.id = Str_Villager => VillagerNew(entity).ok
           /\ entityid' = entity.id
           /\ entitycount' = entitycount + 1
           /\ out' = IF entity.id = Str_Villager
                     THEN out \o <<dbg, [level |-> "info", kind |-> "villager",
                                         text |-> VillagerStr(VillagerNew(entity).val)]>>
                     ELSE Append(out, dbg)
    /\ ei' = ei + 1
    /\ UNCHANGED <<pos, ret, pc, world, liberr, args_block, chunks, fetched,
                   processed, work, blockcount, raised>>

\* lines 353-360: an entity that matches, and Villager(entity) raises
EntityRaise ==
    /\ pc = "chunk"
    /\ ei < Len(CurChunk.Entities)
    /\ LET entity == CurChunk.Entities[ei + 1]
           dbg == [level |-> "debug", kind |-> "entity", nbt |-> entity]
           exc == VillagerNew(entity).exc
       IN  /\ entityMatches(entity)
           /\ entity.id = Str_Villager
           /\ ~VillagerNew(entity).ok
           /\ entityid' = entity.id
           /\ entitycount' = entitycount + 1
           /\ raised' = exc
           /\ pc' = IF CaughtByMain(exc) THEN "returned" ELSE "fault"
           /\ out' = out \o <<dbg, [level |-> IF CaughtByMain(exc) THEN "error"
                                               ELSE "critical",
                                    kind |-> "exception", exc |-> exc]>>
    /\ ei' = ei + 1
    /\ UNCHANGED <<pos, ret, world, liberr, args_block, chunks, fetched,
                   processed, work, blockcount>>

\* the inner for statement finds chunk.Entities exhausted
ChunkEnd ==
    /\ pc = "chunk"
    /\ ei = Len(CurChunk.Entities)
    /\ processed' = processed + 1
    /\ ei' = 0
    /\ pc' = "scan"
    /\ UNCHANGED <<pos, ret, world, liberr, args_block, chunks, fetched, work,
                   entityid, entitycount, blockcount, raised, out>>

\* lines 362-364: the iterator is exhausted; the summary line, and the
\* test of args.block (main() returns when it is None)
EntitySummary ==
    /\ pc = "scan"
    /\ fetched = Len(chunks)
    /\ out' = Append(out, [level |-> "info", kind |-> "summary",
                           name |-> entityid, count |-> entitycount])
    /\ pc' = IF args_block = NoBlock THEN "returned" ELSE "block"
    /\ UNCHANGED <<pos, ret, world, liberr, args_block, chunks, fetched,
                   processed, work, ei, entityid, entitycount, blockcount, raised>>

\* lines 365-367: sorted() takes every chunk from a new iterator before
\* the loop body runs once
BlockStart ==
    /\ pc = "block"
    /\ blockcount' = 0
    /\ fetched' = Len(chunks)
    /\ work' = SortedChunks(chunks)
    /\ processed' = 0
    /\ ei' = 0
    /\ pc' = "bscan"
    /\ UNCHANGED <<pos, ret, world, liberr, args_block, chunks,
                   entityid, entitycount, raised, out>>

\* lines 367-369: the next chunk of the sorted list
BlockChunk ==
    /\ pc = "bscan"
    /\ processed < Len(work)
    /\ ei' = 0
    /\ pc' = "bchunk"
    /\ UNCHANGED <<pos, ret, world, liberr, args_block, chunks, fetched,
                   processed, work, entityid, entitycount, blockcount, raised, out>>

\* lines 369-372: one position that holds the block
BlockPosition ==
    /\ pc = "bchunk"
    /\ LET hits == Where(CurChunk.Blocks, args_block[1]) IN
       /\ ei < Len(hits)
       /\ LET xc == hits[ei + 1][1]
              zc == hits[ei + 1][2]
              y  == hits[ei + 1][3]
              x  == xc + 16 * CurChunk.chunkPosition[1]
              z  == zc + 16 * CurChunk.chunkPosition[2]
          IN  out' = Append(out, [level |-> "debug", kind |-> "block",
                                  text |-> logcoords(CurChunk, <<x, y, z>>)])
    /\ blockcount' = blockcount + 1
    /\ ei' = ei + 1
    /\ UNCHANGED <<pos, ret, pc, world, liberr, args_block, chunks, fetched,
                   processed, work, entityid, entitycount, raised>>

\* the inner for statement finds the positions exhausted
BlockChunkEnd ==
    /\ pc = "bchunk"
    /\ ei = Len(Where(CurChunk.Blocks, args_block[1]))
    /\ processed' = processed + 1
    /\ ei' = 0
    /\ pc' = "bscan"
    /\ UNCHANGED <<pos, ret, world, liberr, args_block, chunks, fetched, work,
                   entityid, entitycount, blockcount, raised, out>>

\* line 373, and main() returns
BlockSummary ==
    /\ pc = "bscan"
    /\ processed = Len(work)
    /\ out' = Append(out, [level |-> "info", kind |-> "blocksummary",
                           name |-> <<"materials", args_block[1], "name">>,
                           count |-> blockcount])
    /\ pc' = "returned"
    /\ UNCHANGED <<pos, ret, world, liberr, args_block, chunks, fetched,
                   processed, work, ei, entityid, entitycount, blockcount, raised>>

(***************************************************************************)
(* Spec: main() as line 337 leaves it, args.block = None.                  *)
(***************************************************************************)
EntityLists == UNION {[1 .. n -> EntityKinds] : n \in 0 .. MaxEntities}

\* the world of the entity search: chunk i holds the entities f[i]; neither
\* the chunk positions nor the blocks are read there
EntityWorld(f) ==
    [i \in DOMAIN f |-> [chunkPosition |-> <<i - 1, 0>>,
                         Entities |-> f[i],
                         Blocks |-> PlainBlocks]]

MainStart ==
    /\ pc = "start"
    /\ world = None
    /\ liberr = "none"
    /\ fetched = 0
    /\ processed = 0
    /\ work = <<>>
    /\ ei = 0
    /\ entityid = <<>>
    /\ entitycount = 0
    /\ blockcount = 0
    /\ raised = "none"
    /\ out = <<>>
    /\ pos = PosNew(<<0, 0, 0>>)
    /\ ret = NoRet

Init ==
    /\ MainStart
    /\ args_block = NoBlock
    /\ \E n \in 0 .. MaxChunks : \E f \in [1 .. n -> EntityLists] :
          chunks = EntityWorld(f)

Next ==
    \/ MainLoadWorld
    \/ MainGetPlayer
    \/ FetchChunk
    \/ EntitySkip
    \/ EntityMatch
    \/ EntityRaise
    \/ ChunkEnd
    \/ EntitySummary

Spec == Init /\ [][Next]_vars

(***************************************************************************)
(* SpecBlock: main() with args.block either None or the block id of the    *)
(* comment of line 337, over worlds whose chunks differ in position and    *)
(* in blocks.                                                              *)
(***************************************************************************)
ChunkPositions == {<<0, 0>>, <<17, -3>>, <<-1, -1>>}
BlockEntityLists == {<<>>, <<E_Villager>>, <<E_Zombie>>, <<E_BadProfession>>}
BlockArrays == [BlockCells -> {1, BlockId}]

BlockChunks == [chunkPosition : ChunkPositions,
                Entities : BlockEntityLists,
                Blocks : BlockArrays]
\* a world holds one chunk at a position
DistinctPositions(w) ==
    \A i, j \in DOMAIN w : i # j => w[i].chunkPosition # w[j].chunkPosition

InitBlock ==
    /\ MainStart
    /\ args_block \in {NoBlock, <<BlockId>>}
    /\ \E n \in 0 .. MaxChunks : \E w \in [1 .. n -> BlockChunks] :
          DistinctPositions(w) /\ chunks = w

NextBlock ==
    \/ MainLoadWorld
    \/ MainGetPlayer
    \/ FetchChunk
    \/ EntitySkip
    \/ EntityMatch
    \/ EntityRaise
    \/ ChunkEnd
    \/ EntitySummary
    \/ BlockStart
    \/ BlockChunk
    \/ BlockPosition
    \/ BlockChunkEnd
    \/ BlockSummary

SpecBlock == InitBlock /\ [][NextBlock]_vars

(***************************************************************************)
(* The properties of main().                                               *)
(***************************************************************************)
RECURSIVE FlattenEntities(_)
\* the entities of a sequence of chunks, in the order the loops meet them
FlattenEntities(cs) ==
    IF cs = <<>> THEN <<>> ELSE Head(cs).Entities \o FlattenEntities(Tail(cs))

\* the entities the entity search has handled so far
Seen ==
    FlattenEntities(SubSeq(work, 1, processed))
       \o (IF processed < Len(work) THEN SubSeq(CurChunk.Entities, 1, ei) ELSE <<>>)

IsEntityLine(r)  == r.kind = "entity"
IsSummaryLine(r) == r.kind = "summary"
IsBlockSummaryLine(r) == r.kind = "blocksummary"
\* the entities logged as matches, oldest first
MatchedEntities ==
    LET lines == SelectSeq(out, IsEntityLine)
    IN  [i \in 1 .. Len(lines) |-> lines[i].nbt]

\* the raw identifier, lower-cased, is the lower-cased search term
IsVillagerId(e) == lower(e.id) = Str_villager

\* the search term lower-cased, with the default namespace put in front
\* when it holds no colon
NormalizedId(term) ==
    IF \E i \in 1 .. Len(term) : term[i] = ":"
    THEN lower(term)
    ELSE Str_minecraft \o lower(term)

EntityPhase == pc \in {"scan", "chunk"}
BlockPhase  == pc \in {"bscan", "bchunk"}
Ended       == pc \in {"returned", "fault"}

(* C4, as the claim states it: the term is lower-cased and given a
   namespace, and an entity whose raw identifier equals that normalized id
   matches: "Villager" matches the raw id "minecraft:villager". *)
C4_NormalizedIdMatches ==
    \A i \in 1 .. Len(Seen) :
        Seen[i].id = NormalizedId(args_entity) =>
            \E j \in 1 .. Len(MatchedEntities) : MatchedEntities[j] = Seen[i]

(* C4, amended: an entity matches exactly when its raw identifier,
   lower-cased, equals the lower-cased search term; no namespace is put in
   front and no display name is looked at, so "Villager" matches the raw ids
   "Villager" and "villager" and not "minecraft:villager". *)
C4_MatchIsCaseInsensitiveId ==
    (EntityPhase \/ Ended) =>
        MatchedEntities = SelectSeq(Seen, IsVillagerId)

C4_Witness ==
    /\ \E j \in 1 .. Len(MatchedEntities) : MatchedEntities[j].id = Str_villager
    /\ \E i \in 1 .. Len(Seen) : Seen[i].id = Str_minecraft \o Str_villager

(* C5: the running count is 0 at the start, goes up by one for each
   matching entity and is left alone by the others, so it is the number of
   matching entities seen so far; the reported id is the raw identifier of
   the last match, or the search term while there is none; the summary line
   reports that id and the number of matching entities of all chunks. *)
C5_RunningCount ==
    ((EntityPhase \/ Ended) /\ liberr = "none") =>
        LET m == SelectSeq(Seen, IsVillagerId) IN
        /\ entitycount = Len(m)
        /\ entityid = IF m = <<>> THEN args_entity ELSE m[Len(m)].id
        /\ \A i \in 1 .. Len(out) :
              IsSummaryLine(out[i]) =>
                 /\ out[i].name = entityid
                 /\ out[i].count = Len(SelectSeq(FlattenEntities(chunks), IsVillagerId))

C5_Witness ==
    /\ \E i \in 1 .. Len(out) : IsSummaryLine(out[i]) /\ out[i].count = 1
    /\ Len(FlattenEntities(chunks)) = 2
    /\ entityid = Str_villager

(* C6: an error of the library becomes PyMCLevelError (IOError and
   LoadingError in load_world, a player not found in get_player); main()
   logs it and returns: no chunk is fetched, no match line and no summary
   line is written, and the error does not leave main(). *)
C6_WorldErrorIsDomainError ==
    liberr # "none" =>
        /\ raised = "PyMCLevelError"
        /\ pc = "returned"
        /\ fetched = 0
        /\ out = <<[level |-> "error", kind |-> "exception", exc |-> "PyMCLevelError"]>>

C6_Witness ==
    /\ liberr = "LoadingError"
    /\ pc = "returned"
    /\ raised = "PyMCLevelError"

(* C7: once the world and the player are loaded, the entity search ends
   having gone through every chunk and having written exactly one summary
   line, whatever the entities hold: a Villager whose Profession is outside
   0..4, or one without Pos, does not end the search early. *)
C7_ScanRunsToCompletion ==
    (Ended /\ liberr = "none") =>
        /\ processed = Len(chunks)
        /\ Len(SelectSeq(out, IsSummaryLine)) = 1

\* the cells of a chunk that hold the block searched for
Voxels(chunk) == {c \in DOMAIN chunk.Blocks : chunk.Blocks[c] = BlockId}
RECURSIVE VoxelCount(_)
VoxelCount(cs) ==
    IF cs = <<>> THEN 0 ELSE Cardinality(Voxels(Head(cs))) + VoxelCount(Tail(cs))
\* a palette holds one record for each distinct block type of a chunk
RECURSIVE PaletteCount(_)
PaletteCount(cs) ==
    IF cs = <<>> THEN 0
    ELSE (IF Voxels(Head(cs)) = {} THEN 0 ELSE 1) + PaletteCount(Tail(cs))

(* C8, as the claim states it: the count of the block search is the number
   of palette records that match, one for each record, and not the number
   of positions that hold the block. *)
C8_CountIsPerRecord ==
    \A i \in 1 .. Len(out) :
        IsBlockSummaryLine(out[i]) => out[i].count = PaletteCount(chunks)

(* C8, amended: the count of the block search is the number of positions
   that hold the block, over all chunks: one for every position
   numpy.where() yields, several for a chunk that holds the block at
   several positions. *)
C8_CountIsPerPosition ==
    /\ BlockPhase =>
          blockcount = VoxelCount(SubSeq(work, 1, processed))
                          + (IF pc = "bchunk" THEN ei ELSE 0)
    /\ \A i \in 1 .. Len(out) :
          IsBlockSummaryLine(out[i]) => out[i].count = VoxelCount(chunks)

C8_Witness ==
    \E i \in 1 .. Len(out) :
        /\ IsBlockSummaryLine(out[i])
        /\ out[i].count = VoxelCount(chunks)
        /\ out[i].count > PaletteCount(chunks)

(* C9, as the claim states it: in both searches at no point have two or
   more chunks been fetched while an earlier one is still unprocessed. *)
C9_AtMostOneChunkInHand == fetched - processed <= 1

(* C9, amended: the entity search takes a chunk from the iterator only
   when every chunk taken before has been processed to its end; the block
   search takes all chunks from the iterator before it processes the first
   (sorted()), and then goes through them one by one in ascending order of
   chunk position. *)
C9_LazyEntityEagerBlock ==
    /\ pc = "scan"  => fetched = processed
    /\ pc = "chunk" => fetched = processed + 1 /\ work = SubSeq(chunks, 1, fetched)
    /\ BlockPhase =>
          /\ fetched = Len(chunks)
          /\ Len(work) = Len(chunks)
          /\ \A i \in 1 .. Len(chunks) : \E j \in 1 .. Len(work) : work[j] = chunks[i]
          /\ \A i \in 1 .. Len(work) - 1 :
                PairLess(work[i].chunkPosition, work[i + 1].chunkPosition)

C9_Witness ==
    /\ pc = "bchunk"
    /\ processed = 0
    /\ fetched >= 2
    /\ work # chunks

====
